---- MODULE Spec2Model ----
(***************************************************************************)
(* Router swap-leg executor of astroport-core:                             *)
(*   contracts/router/src/operations.rs                                    *)
(*     execute_swap_operation  -- authorises the caller, resolves the pair *)
(*                                and the offer amount, calls the builder   *)
(*     asset_into_swap_msg     -- builds the single outbound CosmosMsg      *)
(*   packages/pair_bonded/src/state.rs  -- the persisted CONFIG item        *)
(*                                                                         *)
(* Option<T> is [some |-> FALSE] / [some |-> TRUE, value |-> v];            *)
(* Result<T,E> is [ok |-> TRUE, value |-> v] / [ok |-> FALSE, err |-> e].   *)
(* Uint128 amounts are naturals; the only arithmetic of the code is one    *)
(* checked subtraction, so no value ever leaves 0 .. MaxAmount.            *)
(***************************************************************************)
EXTENDS Naturals, Sequences, FiniteSets, TLC

VARIABLES
    CONFIG,     \* the persisted Config item (storage key "config")
    bank,       \* native balances of the contract, per denom
    cw20,       \* token balances of the contract, per token contract
    call,       \* Option: the arguments of the call the runtime is handling
    builder,    \* Option: the arguments that call handed to asset_into_swap_msg
    response,   \* Option: the Result<Response, ContractError> of that call
    leg         \* legs of the current route that have settled

vars == <<CONFIG, bank, cw20, call, builder, response, leg>>

\* ------------------------------------------------------------------ bounds
MaxAmount == 2
MaxLegs == 2

\* ------------------------------------------------------------ value shapes
None == [some |-> FALSE]
Some(v) == [some |-> TRUE, value |-> v]

Ok(v) == [ok |-> TRUE, value |-> v]
Err(e) == [ok |-> FALSE, err |-> e]

\* astroport::asset::AssetInfo
NativeToken(denom) == [kind |-> "native_token", id |-> denom]
Token(contract_addr) == [kind |-> "token", id |-> contract_addr]

Denoms == {"uusd", "uluna"}
TokenContracts == {"tokA", "tokB"}
AssetInfos == {NativeToken(d) : d \in Denoms} \cup {Token(t) : t \in TokenContracts}

\* ap_router::SwapOperation
AstroSwap(offer_asset_info, ask_asset_info) ==
    [kind |-> "astro_swap", offer_asset_info |-> offer_asset_info,
     ask_asset_info |-> ask_asset_info]
NativeSwap(offer_denom, ask_denom) ==
    [kind |-> "native_swap", offer_asset_info |-> NativeToken(offer_denom),
     ask_asset_info |-> NativeToken(ask_denom)]

SwapOperations ==
    {AstroSwap(o, a) : o \in AssetInfos, a \in AssetInfos}
        \cup {NativeSwap("uusd", "uluna")}

\* env.contract.address and the senders a message can come from
ContractAddress == "router"
Senders == {ContractAddress, "user"}
Recipients == {None, Some("user")}

\* Decimal values travel through the code untouched; Decimal::MAX is
\* Decimal(Uint128::MAX), printed with 18 fractional digits.
DecimalMAX == "340282366920938463463.374607431768211455"
MaxSpreads == {None, Some("0.01")}

Amounts == 0 .. MaxAmount
\* replies of the tax query; one more than MaxAmount so that tax > amount occurs
Taxes == 0 .. (MaxAmount + 1)

InitConfig == [astroport_factory |-> "factory"]

\* ------------------------------------------------- external collaborators
\* cw_storage_plus Item::load on the "config" key.
CONFIG_load(storage) == Ok(storage.config)

\* The factory's registry: the pair contract of an unordered pair of assets.
PairRegistry(asset_infos) ==
    IF asset_infos = {NativeToken("uusd"), Token("tokA")} THEN Some("pair_uusd_tokA")
    ELSE IF asset_infos = {Token("tokA"), NativeToken("uluna")} THEN Some("pair_tokA_uluna")
    ELSE IF asset_infos = {NativeToken("uusd"), NativeToken("uluna")} THEN Some("pair_uusd_uluna")
    ELSE IF asset_infos = {Token("tokA"), Token("tokB")} THEN Some("pair_tokA_tokB")
    ELSE None

\* ap_factory::query_pair_info: PairInfo of the pair, or the query's error.
query_pair_info(querier, factory_contract, asset_infos) ==
    LET found == IF factory_contract = InitConfig.astroport_factory
                 THEN PairRegistry({asset_infos[1], asset_infos[2]})
                 ELSE None
    IN  IF found.some
        THEN Ok([contract_addr |-> found.value, asset_infos |-> asset_infos])
        ELSE Err("PairNotFound")

\* astroport::querier::query_balance: bank balance of account in denom.
query_balance(querier, account_addr, denom) ==
    Ok(querier.bank[account_addr][denom])

\* astroport::querier::query_token_balance: cw20 balance of account at the token.
query_token_balance(querier, contract_addr, account_addr) ==
    Ok(querier.cw20[contract_addr][account_addr])

\* Asset::compute_tax: an opaque function of the asset and the chain state;
\* the reply the chain gives for this query is part of the querier.
compute_tax(offer_asset, querier) == Ok(querier.tax)

\* Uint128::checked_sub: fails instead of wrapping.
saturating_sub(a, b) == IF b > a THEN Ok(0) ELSE Ok(a - b)
checked_sub(a, b) == IF b > a THEN Err("ArithmeticUnderflow") ELSE Ok(a - b)

\* cosmwasm_std::to_binary: the JSON encoding of a message, wrapped as Binary.
\* Only the decoded content of a payload is ever inspected.
to_binary(msg) == [binary |-> msg]
from_binary(bin) == bin.binary

\* -------------------------------------------------- asset_into_swap_msg
\* Line 98: spread assertion is disabled for a hop of a multi hop route.
belief_price_swapped(single) == IF single THEN Some(DecimalMAX) ELSE None
belief_price_of(single) == IF single THEN None ELSE Some(DecimalMAX)

\* The NativeToken arm (lines 101-123).
native_swap_msg(deps, pair_contract, offer_asset, ask_asset_info, max_spread, to, single) ==
    LET tax == compute_tax(offer_asset, deps.querier)
        amount == IF tax.ok THEN checked_sub(offer_asset.amount, tax.value) ELSE tax
    IN  IF ~amount.ok THEN amount
        ELSE Ok([contract_addr |-> pair_contract,
                 funds |-> <<[denom |-> offer_asset.info.id, amount |-> amount.value]>>,
                 msg |-> to_binary([swap |->
                    [offer_asset |-> [info |-> offer_asset.info, amount |-> amount.value],
                     ask_asset_info |-> Some(ask_asset_info),
                     belief_price |-> belief_price_of(single),
                     max_spread |-> max_spread,
                     to |-> to]])])

\* The Token arm (lines 124-137).
token_swap_msg_taxed(deps, pair_contract, offer_asset, ask_asset_info, max_spread, to, single) ==
    LET tax == compute_tax(offer_asset, deps.querier)
        amount == IF tax.ok THEN checked_sub(offer_asset.amount, tax.value) ELSE tax
    IN  IF ~amount.ok THEN amount
        ELSE Ok([contract_addr |-> offer_asset.info.id,
                 funds |-> <<>>,
                 msg |-> to_binary([send |->
                    [contract |-> pair_contract,
                     amount |-> amount.value,
                     msg |-> to_binary([swap |->
                        [ask_asset_info |-> Some(ask_asset_info),
                         belief_price |-> belief_price_of(single),
                         max_spread |-> max_spread,
                         to |-> to]])]])])
token_swap_msg_to_pair(deps, pair_contract, offer_asset, ask_asset_info, max_spread, to, single) ==
    Ok([contract_addr |-> pair_contract,
        funds |-> <<>>,
        msg |-> to_binary([send |->
           [contract |-> offer_asset.info.id,
            amount |-> offer_asset.amount,
            msg |-> to_binary([swap |->
               [ask_asset_info |-> Some(ask_asset_info),
                belief_price |-> belief_price_of(single),
                max_spread |-> max_spread,
                to |-> to]])]])])
token_swap_msg(deps, pair_contract, offer_asset, ask_asset_info, max_spread, to, single) ==
    Ok([contract_addr |-> offer_asset.info.id,
        funds |-> <<>>,
        msg |-> to_binary([send |->
           [contract |-> pair_contract,
            amount |-> offer_asset.amount,
            msg |-> to_binary([swap |->
               [ask_asset_info |-> Some(ask_asset_info),
                belief_price |-> belief_price_of(single),
                max_spread |-> max_spread,
                to |-> to]])]])])

\* asset_into_swap_msg (lines 88-139): StdResult<CosmosMsg>.
asset_into_swap_msg_no_spread_in_route(deps, pair_contract, offer_asset, ask_asset_info, max_spread, to, single) ==
    LET spread == IF single THEN max_spread ELSE None
    IN  IF offer_asset.info.kind = "native_token"
        THEN native_swap_msg(deps, pair_contract, offer_asset, ask_asset_info,
                             spread, to, single)
        ELSE token_swap_msg(deps, pair_contract, offer_asset, ask_asset_info,
                            spread, to, single)
asset_into_swap_msg_to_pair_default(deps, pair_contract, offer_asset, ask_asset_info, max_spread, to, single) ==
    LET receiver == IF to.some THEN to ELSE Some(pair_contract)
    IN  IF offer_asset.info.kind = "native_token"
        THEN native_swap_msg(deps, pair_contract, offer_asset, ask_asset_info,
                             max_spread, receiver, single)
        ELSE token_swap_msg(deps, pair_contract, offer_asset, ask_asset_info,
                            max_spread, receiver, single)
asset_into_swap_msg(deps, pair_contract, offer_asset, ask_asset_info, max_spread, to, single) ==
    IF offer_asset.info.kind = "native_token"
    THEN native_swap_msg(deps, pair_contract, offer_asset, ask_asset_info,
                         max_spread, to, single)
    ELSE token_swap_msg(deps, pair_contract, offer_asset, ask_asset_info,
                        max_spread, to, single)

\* ----------------------------------------------- execute_swap_operation
\* Lines 46-53: the offer amount is the contract's own balance of the offer asset.
query_offer_amount_bank_only(querier, env, offer_asset_info) ==
    IF offer_asset_info.kind = "native_token"
    THEN query_balance(querier, env.contract.address, offer_asset_info.id)
    ELSE Ok(0)
query_offer_amount(querier, env, offer_asset_info) ==
    IF offer_asset_info.kind = "native_token"
    THEN query_balance(querier, env.contract.address, offer_asset_info.id)
    ELSE query_token_balance(querier, offer_asset_info.id, env.contract.address)

\* Lines 39-67: what the AstroSwap arm resolves and hands to asset_into_swap_msg,
\* or the first error of the three reads.
swap_msg_args(deps, env, operation, to, max_spread, single) ==
    LET config == CONFIG_load(deps.storage)
        pair_info == query_pair_info(deps.querier, config.value.astroport_factory,
                        <<operation.offer_asset_info, operation.ask_asset_info>>)
        amount == query_offer_amount(deps.querier, env, operation.offer_asset_info)
    IN  IF ~config.ok THEN config
        ELSE IF ~pair_info.ok THEN pair_info
        ELSE IF ~amount.ok THEN amount
        ELSE Ok([pair_contract |-> pair_info.value.contract_addr,
                 offer_asset |-> [info |-> operation.offer_asset_info,
                                  amount |-> amount.value],
                 ask_asset_info |-> operation.ask_asset_info,
                 max_spread |-> max_spread,
                 to |-> to,
                 single |-> single])

\* Lines 34-70: the match on the operation, Result<CosmosMsg, ContractError>.
swap_message(deps, env, operation, to, max_spread, single) ==
    IF operation.kind = "astro_swap"
    THEN LET args == swap_msg_args(deps, env, operation, to, max_spread, single)
         IN  IF ~args.ok THEN args
             ELSE asset_into_swap_msg(deps, args.value.pair_contract,
                      args.value.offer_asset, args.value.ask_asset_info,
                      args.value.max_spread, args.value.to, args.value.single)
    ELSE Err("NativeSwapNotSupported")

\* execute_swap_operation (lines 21-73): Result<Response, ContractError>.
execute_swap_operation_open(deps, env, info, operation, to, max_spread, single) ==
    LET message == swap_message(deps, env, operation, to, max_spread, single)
    IN  IF ~message.ok THEN message
        ELSE Ok([messages |-> <<message.value>>])
execute_swap_operation_native_noop(deps, env, info, operation, to, max_spread, single) ==
    IF env.contract.address # info.sender THEN Err("Unauthorized")
    ELSE IF operation.kind = "native_swap" THEN Ok([messages |-> <<>>])
    ELSE LET message == swap_message(deps, env, operation, to, max_spread, single)
         IN  IF ~message.ok THEN message
             ELSE Ok([messages |-> <<message.value>>])
execute_swap_operation_twice(deps, env, info, operation, to, max_spread, single) ==
    IF env.contract.address # info.sender THEN Err("Unauthorized")
    ELSE LET message == swap_message(deps, env, operation, to, max_spread, single)
         IN  IF ~message.ok THEN message
             ELSE Ok([messages |-> <<message.value, message.value>>])
execute_swap_operation(deps, env, info, operation, to, max_spread, single) ==
    IF env.contract.address # info.sender THEN Err("Unauthorized")
    ELSE LET message == swap_message(deps, env, operation, to, max_spread, single)
         IN  IF ~message.ok THEN message
             ELSE Ok([messages |-> <<message.value>>])

\* ------------------------------------------------------------ the machine
Env == [contract |-> [address |-> ContractAddress]]

\* deps of one call: the storage and the querier's view of the chain, with the
\* reply the chain gives to the tax query.
Deps(tax) ==
    [storage |-> [config |-> CONFIG],
     querier |-> [bank |-> [a \in {ContractAddress} |-> bank],
                  cw20 |-> [t \in TokenContracts |-> [a \in {ContractAddress} |-> cw20[t]]],
                  tax |-> tax]]

Init ==
    /\ CONFIG = InitConfig
    /\ bank \in [Denoms -> Amounts]
    /\ cw20 \in [TokenContracts -> Amounts]
    /\ call = None
    /\ builder = None
    /\ response = None
    /\ leg = 0

\* One message to the contract's ExecuteSwapOperation entry. The runtime runs
\* one message to completion and handles its result before the next one.
ExecuteSwapOperation ==
    /\ response = None
    /\ \E sender \in Senders, operation \in SwapOperations, to \in Recipients,
          max_spread \in MaxSpreads, single \in BOOLEAN, tax \in Taxes :
        LET deps == Deps(tax)
            info == [sender |-> sender]
            args == swap_msg_args(deps, Env, operation, to, max_spread, single)
        IN  /\ call' = Some([sender |-> sender, operation |-> operation, to |-> to,
                             max_spread |-> max_spread, single |-> single, tax |-> tax])
            /\ response' = Some(execute_swap_operation(deps, Env, info, operation,
                                                       to, max_spread, single))
            /\ builder' = IF sender = ContractAddress /\ operation.kind = "astro_swap"
                             /\ args.ok
                          THEN Some(args.value) ELSE None
    /\ UNCHANGED <<CONFIG, bank, cw20, leg>>

BalanceOf(asset_info) ==
    IF asset_info.kind = "native_token" THEN bank[asset_info.id] ELSE cw20[asset_info.id]

\* The runtime dispatches the instruction of a successful leg: the offered amount
\* (and, for a native offer, the tax on it) leaves the contract, and the pair pays
\* an amount of the ask asset to the recipient, the contract itself when none is
\* named. The next leg of the route runs after this.
Settle ==
    /\ response.some /\ response.value.ok
    /\ \E returned \in Amounts :
        LET msg == response.value.value.messages[1]
            payload == from_binary(msg.msg)
            offer == call.value.operation.offer_asset_info
            ask == call.value.operation.ask_asset_info
            spent == IF msg.funds # <<>> THEN msg.funds[1].amount + call.value.tax
                     ELSE payload.send.amount
            received == IF call.value.to.some THEN 0 ELSE returned
            after(info) == IF info = offer THEN BalanceOf(info) - spent
                           ELSE IF info = ask THEN BalanceOf(info) + received
                           ELSE BalanceOf(info)
        IN  /\ spent <= BalanceOf(offer)
            /\ BalanceOf(ask) + received <= MaxAmount
            /\ bank' = [d \in Denoms |-> after(NativeToken(d))]
            /\ cw20' = [t \in TokenContracts |-> after(Token(t))]
    /\ leg' = (leg + 1) % MaxLegs
    /\ call' = None /\ builder' = None /\ response' = None
    /\ UNCHANGED CONFIG

\* The runtime receives an error: nothing is dispatched and the route ends.
Abort ==
    /\ response.some /\ ~response.value.ok
    /\ leg' = 0
    /\ call' = None /\ builder' = None /\ response' = None
    /\ UNCHANGED <<CONFIG, bank, cw20>>

Next == ExecuteSwapOperation \/ Settle \/ Abort

Spec == Init /\ [][Next]_vars

\* ------------------------------------------------------ reading a reply
Called == call.some /\ response.some
Failed == Called /\ ~response.value.ok
Emitted == Called /\ response.value.ok
Messages == response.value.value.messages
Instruction == Messages[1]
Authorized == call.value.sender = ContractAddress
OfferInfo == call.value.operation.offer_asset_info
AskInfo == call.value.operation.ask_asset_info
Payload == from_binary(Instruction.msg)
IsNativeShape == DOMAIN Payload = {"swap"}
IsTokenShape == DOMAIN Payload = {"send"}
\* the Swap request the instruction carries, directly or as the Send's hook
SwapRequest == IF IsNativeShape THEN Payload.swap ELSE from_binary(Payload.send.msg).swap

\* ------------------------------------------------------------------ claims
\* C1: a call whose sender is not the contract itself fails with Unauthorized,
\* whatever the operation, recipient, max_spread and single, and returns no
\* instruction.
C1_Unauthorized ==
    (Called /\ ~Authorized) =>
        /\ response.value = Err("Unauthorized")
        /\ builder = None
C1_Witness ==
    /\ Called /\ ~Authorized
    /\ call.value.operation.kind = "astro_swap"
    /\ PairRegistry({OfferInfo, AskInfo}).some
    /\ response.value = Err("Unauthorized")

\* C2 as stated: every call with a NativeSwap operation fails with
\* NativeSwapNotSupported, whoever the sender is.
C2_Original ==
    (Called /\ call.value.operation.kind = "native_swap") =>
        response.value = Err("NativeSwapNotSupported")
\* C2 amended: every call from the contract itself with a NativeSwap operation
\* fails with NativeSwapNotSupported, regardless of recipient, max_spread and
\* single, and returns no instruction; from any other sender it fails with
\* Unauthorized.
C2_NativeSwapRejected ==
    (Called /\ call.value.operation.kind = "native_swap") =>
        /\ ~response.value.ok
        /\ response.value.err =
             IF Authorized THEN "NativeSwapNotSupported" ELSE "Unauthorized"
        /\ builder = None
C2_Witness ==
    /\ Called /\ Authorized
    /\ call.value.operation.kind = "native_swap"
    /\ response.value = Err("NativeSwapNotSupported")

\* C3: the belief price of the emitted Swap request is Decimal::MAX when single
\* is false and absent when single is true, for native and token offers alike.
C3_BeliefPrice ==
    Emitted =>
        /\ call.value.single => SwapRequest.belief_price = None
        /\ ~call.value.single => SwapRequest.belief_price = Some(DecimalMAX)
C3_Witness ==
    /\ Emitted /\ ~call.value.single
    /\ OfferInfo.kind = "token"
    /\ call.value.max_spread.some
    /\ SwapRequest.belief_price = Some(DecimalMAX)

\* C4: for a native offer of amount A with tax T: when T <= A the instruction
\* attaches exactly A - T of the offer denom and its Swap names the offer asset
\* with amount A - T; when T > A the call fails with an underflow error.
C4_NativeTax ==
    (Called /\ builder.some /\ builder.value.offer_asset.info.kind = "native_token") =>
        LET A == builder.value.offer_asset.amount
            T == call.value.tax
        IN  IF T <= A
            THEN /\ response.value.ok
                 /\ Instruction.funds = <<[denom |-> OfferInfo.id, amount |-> A - T]>>
                 /\ IsNativeShape
                 /\ Payload.swap.offer_asset = [info |-> OfferInfo, amount |-> A - T]
            ELSE response.value = Err("ArithmeticUnderflow")
C4_Witness ==
    /\ Emitted /\ builder.some
    /\ OfferInfo.kind = "native_token"
    /\ call.value.tax = 1
    /\ builder.value.offer_asset.amount = MaxAmount
    /\ Instruction.funds[1].amount = MaxAmount - 1

\* C5: for a token offer of amount A the Send transfers exactly A, whatever the
\* tax query would reply, never fails with underflow, and attaches no funds.
C5_TokenUntaxed ==
    (Called /\ builder.some /\ builder.value.offer_asset.info.kind = "token") =>
        /\ response.value.ok
        /\ IsTokenShape
        /\ Payload.send.amount = builder.value.offer_asset.amount
        /\ Instruction.funds = <<>>
C5_Witness ==
    /\ Emitted /\ builder.some
    /\ OfferInfo.kind = "token"
    /\ call.value.tax > builder.value.offer_asset.amount
    /\ builder.value.offer_asset.amount > 0
    /\ Payload.send.amount = builder.value.offer_asset.amount

\* C6: a native offer yields the native-settlement instruction (to the resolved
\* pair contract, payload Swap), a token offer the token-settlement instruction
\* (to the token contract, payload Send to the resolved pair contract with a Swap
\* hook), whatever the ask asset kind, single, max_spread and recipient.
C6_KindRouting ==
    Emitted =>
        LET pair == PairRegistry({OfferInfo, AskInfo})
        IN  /\ pair.some
            /\ SwapRequest.ask_asset_info = Some(AskInfo)
            /\ IF OfferInfo.kind = "native_token"
               THEN /\ IsNativeShape
                    /\ Instruction.contract_addr = pair.value
               ELSE /\ IsTokenShape
                    /\ Instruction.contract_addr = OfferInfo.id
                    /\ Payload.send.contract = pair.value
                    /\ DOMAIN from_binary(Payload.send.msg) = {"swap"}
C6_Witness ==
    /\ Emitted
    /\ OfferInfo.kind = "token" /\ AskInfo.kind = "token"
    /\ IsTokenShape
    /\ Instruction.contract_addr = "tokA"
    /\ Payload.send.contract = "pair_tokA_tokB"

\* C7: the offer amount handed to asset_into_swap_msg is the contract's whole
\* balance of the offer asset when the leg runs, in every leg of a route.
C7_WholeBalance ==
    (Called /\ builder.some) =>
        /\ builder.value.offer_asset.info = OfferInfo
        /\ builder.value.offer_asset.amount = BalanceOf(OfferInfo)
        /\ Emitted /\ OfferInfo.kind = "token" =>
              Payload.send.amount = BalanceOf(OfferInfo)
        /\ Emitted /\ OfferInfo.kind = "native_token" =>
              Instruction.funds[1].amount + call.value.tax = BalanceOf(OfferInfo)
C7_Witness ==
    /\ Emitted /\ builder.some
    /\ leg = 1
    /\ OfferInfo.kind = "token"
    /\ BalanceOf(OfferInfo) = MaxAmount
    /\ builder.value.offer_asset.amount = MaxAmount

\* C8: the max_spread of the emitted Swap request is the max_spread of the call,
\* present or absent, in both shapes and for both values of single.
C8_MaxSpreadForwarded ==
    Emitted => SwapRequest.max_spread = call.value.max_spread
C8_Witness ==
    /\ Emitted /\ ~call.value.single
    /\ OfferInfo.kind = "native_token"
    /\ call.value.max_spread = Some("0.01")
    /\ SwapRequest.max_spread = Some("0.01")

\* C9 as stated: without a recipient the emitted Swap request names the caller
\* of the leg; with one it names exactly that recipient.
C9_Original ==
    Emitted =>
        SwapRequest.to = IF call.value.to.some THEN call.value.to
                         ELSE Some(call.value.sender)
\* C9 amended: the recipient of the emitted Swap request is the recipient of the
\* call unchanged: absent when the call names none, exactly the named one
\* otherwise.
C9_RecipientForwarded ==
    Emitted => SwapRequest.to = call.value.to
C9_Witness ==
    /\ Emitted
    /\ call.value.to = None
    /\ SwapRequest.to = None

====
